---- MODULE Spec2Model ----
(***************************************************************************)
(* astdot: the tree-to-graph serializer (src/src/astdot.py).               *)
(*                                                                         *)
(* Text is modelled by TLA+ strings, character for character: "\n" is a    *)
(* line feed, "\\n" the two characters backslash and n, "\"" a double      *)
(* quote.  A Python dict is modelled with its insertion order (keys) and   *)
(* its mapping (val).  A Python value of the input tree is a record with   *)
(* the same fields for every kind of value.                                *)
(***************************************************************************)
EXTENDS Integers, Sequences, FiniteSets, TLC

VARIABLES
    call,         \* the public function called last ("none" before/after a call)
    args,         \* the arguments of that call
    graph,        \* dict: node ID -> list of child IDs        (astdot.py:124)
    node_labels,  \* dict: node ID -> label text               (astdot.py:124)
    edge_labels,  \* dict: <<parent ID, child ID>> -> label    (astdot.py:124)
    result,       \* what the call returned, or the exception it raised
    first         \* history: the arguments and the outcome of the first call made

vars == <<call, args, graph, node_labels, edge_labels, result, first>>

----------------------------------------------------------------------------
(* Bounds of the model. *)

\* Largest number of traversal targets (composite nodes, lists, list elements)
\* in a generated input tree of nodes, lists and leaves.
MaxNodes == 3

\* Largest number of lists in a generated input tree of nested lists.
MaxListNodes == 5

\* Longest string leaf in the generated string-leaf inputs.
MaxStrLen == 2

----------------------------------------------------------------------------
(* Text helpers. *)

CharAt(s, i) == SubSeq(s, i, i)

RECURSIVE Join(_, _)
\* sep.join(parts)
Join(parts, sep) ==
    IF parts = <<>> THEN ""
    ELSE IF Len(parts) = 1 THEN parts[1]
    ELSE parts[1] \o sep \o Join(Tail(parts), sep)

RECURSIVE ReplaceChar(_, _, _)
\* s.replace(c, by) for a one-character c
ReplaceChar(s, c, by) ==
    IF s = "" THEN ""
    ELSE (IF CharAt(s, 1) = c THEN by ELSE CharAt(s, 1))
         \o ReplaceChar(SubSeq(s, 2, Len(s)), c, by)

Contains(s, c) == \E i \in 1..Len(s) : CharAt(s, i) = c

\* Whether sub occurs in s starting at position i.
OccursAt(s, sub, i) == i + Len(sub) - 1 <= Len(s) /\ SubSeq(s, i, i + Len(sub) - 1) = sub

Occurrences(s, sub) == {i \in 1..Len(s) : OccursAt(s, sub, i)}

IsWhitespace(c) == c \in {" ", "\n", "\t", "\r"}

RECURSIVE LStrip(_)
LStrip(s) ==
    IF s # "" /\ IsWhitespace(CharAt(s, 1)) THEN LStrip(SubSeq(s, 2, Len(s))) ELSE s

RECURSIVE RStrip(_)
RStrip(s) ==
    IF s # "" /\ IsWhitespace(CharAt(s, Len(s))) THEN RStrip(SubSeq(s, 1, Len(s) - 1)) ELSE s

RECURSIVE Find(_, _, _)
\* The first position from i on where sub occurs in s, 0 when there is none.
Find(s, sub, i) ==
    IF i + Len(sub) - 1 > Len(s) THEN 0
    ELSE IF OccursAt(s, sub, i) THEN i
    ELSE Find(s, sub, i + 1)

RECURSIVE Split(_, _)
\* s.split(sep), for a sep that is not empty
Split(s, sep) ==
    LET i == Find(s, sep, 1)
    IN  IF i = 0 THEN <<s>>
        ELSE <<SubSeq(s, 1, i - 1)>> \o Split(SubSeq(s, i + Len(sep), Len(s)), sep)

StartsWith(s, prefix) == OccursAt(s, prefix, 1)

\* str.strip()
Strip(s) == RStrip(LStrip(s))

----------------------------------------------------------------------------
(* Python values of an input tree. *)

PyNone == [kind |-> "None", cls |-> "", fields |-> <<>>, elems |-> <<>>, ival |-> 0, sval |-> ""]
PyInt(n) == [kind |-> "int", cls |-> "", fields |-> <<>>, elems |-> <<>>, ival |-> n, sval |-> ""]
PyBool(b) == [kind |-> "bool", cls |-> "", fields |-> <<>>, elems |-> <<>>,
              ival |-> IF b THEN 1 ELSE 0, sval |-> ""]
PyStr(s) == [kind |-> "str", cls |-> "", fields |-> <<>>, elems |-> <<>>, ival |-> 0, sval |-> s]
PyList(es) == [kind |-> "list", cls |-> "", fields |-> <<>>, elems |-> es, ival |-> 0, sval |-> ""]
\* An ast.AST instance: its class name and its fields, as ast.iter_fields
\* yields them (class _fields order), each <<name, value>>.
PyAST(c, fs) == [kind |-> "AST", cls |-> c, fields |-> fs, elems |-> <<>>, ival |-> 0, sval |-> ""]

\* case ast.AST() | list()
IsComposite(v) == v.kind \in {"AST", "list"}

\* repr() of a str of printable ASCII: single quotes unless the string holds a
\* single quote and no double quote; backslash and the chosen quote escaped.
ReprStr(s) ==
    LET q == IF Contains(s, "'") /\ ~Contains(s, "\"") THEN "\"" ELSE "'"
        body == ReplaceChar(ReplaceChar(s, "\\", "\\\\"), q, "\\" \o q)
    IN  q \o body \o q

\* repr() of an int
ReprInt(n) == ToString(n)

\* f'{value!r}' for a value that is neither an ast.AST nor a list
Repr(v) ==
    CASE v.kind = "None" -> "None"
      [] v.kind = "int" -> ReprInt(v.ival)
      [] v.kind = "bool" -> IF v.ival = 1 THEN "True" ELSE "False"
      [] v.kind = "str" -> ReprStr(v.sval)

----------------------------------------------------------------------------
(* Python dicts, with insertion order. *)

EmptyDict == [keys |-> <<>>, val |-> <<>>]

HasKey(d, k) == \E i \in 1..Len(d.keys) : d.keys[i] = k

\* d[k] = v
DictSet(d, k, v) ==
    IF HasKey(d, k)
    THEN [d EXCEPT !.val = [i \in 1..Len(d.keys) |-> IF d.keys[i] = k THEN v ELSE d.val[i]]]
    ELSE [keys |-> Append(d.keys, k), val |-> Append(d.val, v)]

\* d[k], for a key that is there
DictGet(d, k) == d.val[CHOOSE i \in 1..Len(d.keys) : d.keys[i] = k]

KeySet(d) == {d.keys[i] : i \in 1..Len(d.keys)}

----------------------------------------------------------------------------
(* The skip predicate. *)

\* Equality that only compares the Python truth of the two values (None, 0,
\* False, '' and [] are false).
PyEqByTruth(a, b) ==
    LET IsFalsy(v) ==
            CASE v.kind = "None" -> TRUE
              [] v.kind \in {"int", "bool"} -> v.ival = 0
              [] v.kind = "str" -> v.sval = ""
              [] v.kind = "list" -> v.elems = <<>>
              [] OTHER -> FALSE
    IN  IsFalsy(a) = IsFalsy(b)

RECURSIVE PyEq(_, _)
\* a == b: lists element by element, int and bool as numbers, str by text,
\* None with None only; an ast.AST equals no list, None, number or str.
PyEq(a, b) ==
    CASE a.kind = "list" /\ b.kind = "list" ->
             /\ Len(a.elems) = Len(b.elems)
             /\ \A i \in 1..Len(a.elems) : PyEq(a.elems[i], b.elems[i])
      [] a.kind = "None" /\ b.kind = "None" -> TRUE
      [] a.kind \in {"int", "bool"} /\ b.kind \in {"int", "bool"} -> a.ival = b.ival
      [] a.kind = "str" /\ b.kind = "str" -> a.sval = b.sval
      [] OTHER -> FALSE

\* value in (x, y, ...): equal to one of the members
In(value, members) == \E i \in 1..Len(members) : PyEq(members[i], value)

\* skip that misses None: name != 'value' and value == []
skip_empty_list_only(name, value) ==
    name # "value" /\ value = PyList(<<>>)

\* def skip(name, value): name != 'value' and value in ([], None)
skip(name, value) ==
    name # "value" /\ In(value, <<PyList(<<>>), PyNone>>)

\* The predicates a caller passes as `skip`: the default one, and
\*   never:      lambda name, value: False
\*   name_value: lambda name, value: name == 'value'
\*   composite:  lambda name, value: isinstance(value, (ast.AST, list))
SkipArgs == {"skip", "never", "name_value", "composite"}

\* skip(name, value) inside walk_fields, for the predicate passed in
CallSkip(p, name, value) ==
    CASE p = "skip" -> skip(name, value)
      [] p = "never" -> FALSE
      [] p = "name_value" -> name = "value"
      [] p = "composite" -> IsComposite(value)

----------------------------------------------------------------------------
(* The traversal: walk_node and walk_fields of _to_dot_from_ast.  The three  *)
(* dicts the closures share are threaded through as the record st.         *)

\* parent_id of the root: walk_node(None, root, '')
NoParent == -1

\* node_id = len(graph), taken from the wrong dict
NewIdFromLabels(st) == Len(st.node_labels.keys)

\* node_id = len(graph)
NewId(st) == Len(st.graph.keys)

RECURSIVE walk_node(_, _, _, _, _)
RECURSIVE walk_fields(_, _, _, _, _, _)
RECURSIVE walk_elems(_, _, _, _, _)

\* The loop of walk_fields with the composite case tried before the skip case.
walk_fields_skip_second(st, p, node_id, node, i, acc) ==
    IF i > Len(node.fields) THEN [st |-> st, args |-> acc]
    ELSE LET name == node.fields[i][1]
             value == node.fields[i][2]
         IN  IF IsComposite(value)
             THEN walk_fields(walk_node(st, p, node_id, value, "." \o name),
                              p, node_id, node, i + 1, acc)
             ELSE IF CallSkip(p, name, value)
             THEN walk_fields(st, p, node_id, node, i + 1, acc)
             ELSE walk_fields(st, p, node_id, node, i + 1,
                              Append(acc, name \o ": " \o Repr(value)))

\* The loop of walk_fields from field i on; returns the dicts and args.
walk_fields(st, p, node_id, node, i, acc) ==
    IF i > Len(node.fields) THEN [st |-> st, args |-> acc]
    ELSE LET name == node.fields[i][1]
             value == node.fields[i][2]
         IN  IF CallSkip(p, name, value)
             THEN walk_fields(st, p, node_id, node, i + 1, acc)
             ELSE IF IsComposite(value)
             THEN walk_fields(walk_node(st, p, node_id, value, "." \o name),
                              p, node_id, node, i + 1, acc)
             ELSE walk_fields(st, p, node_id, node, i + 1,
                              Append(acc, name \o ": " \o Repr(value)))

\* The loop over the elements, last element first.
walk_elems_reversed(st, p, node_id, elems, i) ==
    IF i > Len(elems) THEN st
    ELSE LET k == Len(elems) + 1 - i
         IN  walk_elems(walk_node(st, p, node_id, elems[k], "[" \o ToString(k - 1) \o "]"),
                        p, node_id, elems, i + 1)

\* for i, x in enumerate(node): walk_node(node_id, x, f'[{i}]'), from
\* element i (counted from 1 here, from 0 in the label) on.
walk_elems(st, p, node_id, elems, i) ==
    IF i > Len(elems) THEN st
    ELSE walk_elems(walk_node(st, p, node_id, elems[i], "[" \o ToString(i - 1) \o "]"),
                    p, node_id, elems, i + 1)

\* walk_node that records the edge label under the key (node_id, parent_id).
walk_node_key_swapped(st, p, parent_id, node, edge_label) ==
    LET node_id == NewId(st)
        st1 == [st EXCEPT !.graph = DictSet(@, node_id, <<>>)]
        st2 == IF parent_id # NoParent
               THEN [st1 EXCEPT
                       !.graph = DictSet(@, parent_id, Append(DictGet(@, parent_id), node_id)),
                       !.edge_labels = DictSet(@, <<node_id, parent_id>>, edge_label)]
               ELSE st1
    IN  CASE node.kind = "AST" ->
               LET r == walk_fields(st2, p, node_id, node, 1, <<>>)
               IN  [r.st EXCEPT !.node_labels =
                       DictSet(@, node_id, Join(<<node.cls>> \o r.args, "\\n"))]
          [] node.kind = "list" ->
               walk_elems([st2 EXCEPT !.node_labels = DictSet(@, node_id, "list")],
                          p, node_id, node.elems, 1)
          [] OTHER -> st2

walk_node(st, p, parent_id, node, edge_label) ==
    LET node_id == NewId(st)
        st1 == [st EXCEPT !.graph = DictSet(@, node_id, <<>>)]
        st2 == IF parent_id # NoParent
               THEN [st1 EXCEPT
                       !.graph = DictSet(@, parent_id, Append(DictGet(@, parent_id), node_id)),
                       !.edge_labels = DictSet(@, <<parent_id, node_id>>, edge_label)]
               ELSE st1
    IN  CASE node.kind = "AST" ->
               LET r == walk_fields(st2, p, node_id, node, 1, <<>>)
               IN  [r.st EXCEPT !.node_labels =
                       DictSet(@, node_id, Join(<<node.cls>> \o r.args, "\\n"))]
          [] node.kind = "list" ->
               walk_elems([st2 EXCEPT !.node_labels = DictSet(@, node_id, "list")],
                          p, node_id, node.elems, 1)
          [] OTHER -> st2

----------------------------------------------------------------------------
(* The style builder. *)

\* An optional argument: None, or a value.
None == <<>>
Some(x) == <<x>>

\* Python truth of an optional int (None and 0 are false)
Truthy(x) == x # None /\ x[1] # 0

DEFAULT_FONT == "Menlo"
ALLOWED_FONTS == <<"Menlo", "Monaco", "Helvetica", "JetBrains Mono">>

\* x in ALLOWED_FONTS, for an optional str
InAllowedFonts(x) == x # None /\ \E i \in 1..Len(ALLOWED_FONTS) : ALLOWED_FONTS[i] = x[1]

\* f'{n}' of an int
FmtInt(n) == ToString(n)

\* f'{x}' of a float with at most two decimals, given in hundredths
\* (40 is 0.4, 25 is 0.25, 100 is 1.0, -50 is -0.5)
FmtFloat(h) ==
    LET a == IF h < 0 THEN -h ELSE h
        frac == a % 100
    IN  (IF h < 0 THEN "-" ELSE "") \o ToString(a \div 100) \o "."
        \o (IF frac % 10 = 0 THEN ToString(frac \div 10)
            ELSE ToString(frac \div 10) \o ToString(frac % 10))

\* The defaults of make_style's parameters (floats in hundredths).
StyleDefaults ==
    [fontname |-> None, fontsize |-> 15, fontcolor |-> "#000000", penwidth |-> 100,
     border_color |-> "#000000", fillcolor |-> "#E5FDCD", edge_fontsize |-> 12,
     edge_fontcolor |-> "#555555", edge_penwidth |-> 100, edge_arrowsize |-> 50,
     edge_color |-> "#000000", width_in |-> None, height_in |-> None,
     rankdir |-> "TB", ranksep |-> 40, nodesep |-> 25, splines |-> "true",
     force_fit |-> TRUE]

\* font = fontname or DEFAULT_FONT (no allow-list)
StyleFontUnchecked(fontname) ==
    IF fontname # None /\ fontname[1] # "" THEN fontname[1] ELSE DEFAULT_FONT

\* font = fontname if fontname in ALLOWED_FONTS else DEFAULT_FONT
StyleFont(fontname) == IF InAllowedFonts(fontname) THEN fontname[1] ELSE DEFAULT_FONT

\* size_attr with the height-only case written like the width-only case
SizeAttrNoDefaultWidth(o) ==
    LET bang == IF o.force_fit THEN "!" ELSE ""
    IN  IF Truthy(o.width_in) /\ Truthy(o.height_in)
        THEN " size=\"" \o FmtInt(o.width_in[1]) \o "," \o FmtInt(o.height_in[1]) \o bang \o "\""
        ELSE IF Truthy(o.width_in)
        THEN " size=\"" \o FmtInt(o.width_in[1]) \o bang \o "\""
        ELSE IF Truthy(o.height_in)
        THEN " size=\"" \o FmtInt(o.height_in[1]) \o bang \o "\""
        ELSE ""

\* the size_attr of make_style
SizeAttr(o) ==
    LET bang == IF o.force_fit THEN "!" ELSE ""
    IN  IF Truthy(o.width_in) /\ Truthy(o.height_in)
        THEN " size=\"" \o FmtInt(o.width_in[1]) \o "," \o FmtInt(o.height_in[1]) \o bang \o "\""
        ELSE IF Truthy(o.width_in)
        THEN " size=\"" \o FmtInt(o.width_in[1]) \o bang \o "\""
        ELSE IF Truthy(o.height_in)
        THEN " size=\"100," \o FmtInt(o.height_in[1]) \o bang \o "\""
        ELSE ""

make_style(o) ==
    LET font == StyleFont(o.fontname)
    IN  "\ngraph [\n"
        \o "    bgcolor=\"transparent\"\n"
        \o "    fontname=\"" \o font \o "\"\n"
        \o "    fontcolor=\"" \o o.fontcolor \o "\"\n"
        \o "    fontsize=" \o FmtInt(o.fontsize) \o "\n"
        \o "    fontnames=\"ps\"\n"
        \o "    " \o SizeAttr(o) \o "\n"
        \o "    rankdir=" \o o.rankdir \o "\n"
        \o "    ranksep=" \o FmtFloat(o.ranksep) \o "\n"
        \o "    nodesep=" \o FmtFloat(o.nodesep) \o "\n"
        \o "    splines=" \o o.splines \o "\n"
        \o "    ratio=compress\n"
        \o "]\n"
        \o "node [\n"
        \o "    fontname=\"" \o font \o "\"\n"
        \o "    fontcolor=\"" \o o.fontcolor \o "\"\n"
        \o "    fontsize=" \o FmtInt(o.fontsize) \o "\n"
        \o "    shape=box\n"
        \o "    style=\"rounded, filled\"\n"
        \o "    fillcolor=\"" \o o.fillcolor \o "\"\n"
        \o "    penwidth=" \o FmtFloat(o.penwidth) \o "\n"
        \o "    color=\"" \o o.border_color \o "\"\n"
        \o "]\n"
        \o "edge [\n"
        \o "    fontname=\"" \o font \o "\"\n"
        \o "    fontcolor=\"" \o o.edge_fontcolor \o "\"\n"
        \o "    fontsize=" \o FmtInt(o.edge_fontsize) \o "\n"
        \o "    penwidth=" \o FmtFloat(o.edge_penwidth) \o "\n"
        \o "    arrowsize=" \o FmtFloat(o.edge_arrowsize) \o "\n"
        \o "    color=\"" \o o.edge_color \o "\"\n"
        \o "]\n"

----------------------------------------------------------------------------
(* Rendering. *)

\* What a call produced: the text it returned, or the exception it raised.
Returned(text) == [raised |-> "", text |-> text]
Raised(exc) == [raised |-> exc, text |-> ""]

\* The node line without the escaping of the label.
NodeLineUnescaped(n, label) ==
    ToString(n) \o " [label=\"" \o label \o "\"]"

\* label = node_labels[n].replace('"', '\\"'); f'{n} [label="{label}"]'
NodeLine(n, label) ==
    ToString(n) \o " [label=\"" \o ReplaceChar(label, "\"", "\\\"") \o "\"]"

\* f'{src} -> {dst} [label="{edge_labels[src, dst]}"]'
EdgeLine(src, dst, label) ==
    ToString(src) \o " -> " \o ToString(dst) \o " [label=\"" \o label \o "\"]"

\* The order of two <<parent, child>> pairs: by child, or by parent and then
\* by child.
PairLess(a, b, key) ==
    IF key = "child" THEN a[2] < b[2]
    ELSE a[1] < b[1] \/ (a[1] = b[1] /\ a[2] < b[2])

RECURSIVE SortedPairs(_, _)
\* The pairs of the finite set S in the order of key.
SortedPairs(S, key) ==
    IF S = {} THEN <<>>
    ELSE LET m == CHOOSE x \in S : \A y \in S \ {x} : PairLess(x, y, key)
         IN  <<m>> \o SortedPairs(S \ {m}, key)

\* The (src, dst) pairs in the order the traversal recorded them.
EdgePairsAsRecorded(g) ==
    SortedPairs(UNION {{<<g.keys[i], g.val[i][j]>> : j \in 1..Len(g.val[i])} :
                          i \in 1..Len(g.keys)}, "child")

\* The (src, dst) pairs in the order of: for src in graph for dst in graph[src]
EdgePairs(g) ==
    LET RECURSIVE From(_)
        From(i) ==
            IF i > Len(g.keys) THEN <<>>
            ELSE [j \in 1..Len(g.val[i]) |-> <<g.keys[i], g.val[i][j]>>] \o From(i + 1)
    IN  From(1)

graph_to_dot(g, nl, el, style) ==
    LET pairs == EdgePairs(g)
    IN  IF \E i \in 1..Len(g.keys) : ~HasKey(nl, g.keys[i])
        THEN Raised("KeyError")
        ELSE IF \E i \in 1..Len(pairs) : ~HasKey(el, pairs[i])
        THEN Raised("KeyError")
        ELSE Returned(Join(
               <<"digraph G {" \o style>>
               \o [i \in 1..Len(g.keys) |-> NodeLine(g.keys[i], DictGet(nl, g.keys[i]))]
               \o [i \in 1..Len(pairs) |->
                      EdgeLine(pairs[i][1], pairs[i][2], DictGet(el, pairs[i]))]
               \o <<"}">>,
               "\n"))

\* The dicts after walk_node(None, root, '') on fresh dicts.
\* The dicts the previous call left behind, as if the module kept them.
DictsOfLastCall ==
    [graph |-> graph, node_labels |-> node_labels, edge_labels |-> edge_labels]

\* graph, node_labels, edge_labels = {}, {}, {}
FreshDicts ==
    [graph |-> EmptyDict, node_labels |-> EmptyDict, edge_labels |-> EmptyDict]

Walked(root, p) == walk_node(FreshDicts, p, NoParent, root, "")

\* if style is None: style = make_style()
StyleOrDefault(style) == IF style = None THEN make_style(StyleDefaults) ELSE style[1]

----------------------------------------------------------------------------
(* The parser the wrappers call (ast.parse), as the trees CPython builds.  *)

Field(name, value) == <<name, value>>

Constant(v) == PyAST("Constant", <<Field("value", v), Field("kind", PyNone)>>)

\* 2 + 2
BinOp_2_plus_2 ==
    PyAST("BinOp", <<Field("left", Constant(PyInt(2))),
                     Field("op", PyAST("Add", <<>>)),
                     Field("right", Constant(PyInt(2)))>>)

\* global x
Global_x == PyAST("Global", <<Field("names", PyList(<<PyStr("x")>>))>>)

\* f()
Call_f ==
    PyAST("Call", <<Field("func", PyAST("Name", <<Field("id", PyStr("f")),
                                                 Field("ctx", PyAST("Load", <<>>))>>)),
                    Field("args", PyList(<<>>)),
                    Field("keywords", PyList(<<>>))>>)

Expr(v) == PyAST("Expr", <<Field("value", v)>>)
Module(body) == PyAST("Module", <<Field("body", PyList(body)), Field("type_ignores", PyList(<<>>))>>)
Interactive(body) == PyAST("Interactive", <<Field("body", PyList(body))>>)
Expression(body) == PyAST("Expression", <<Field("body", body)>>)

Sources == {"2 + 2", "global x", "f()"}
Modes == {"exec", "eval", "single"}
\* optimize: None, or 0 (no optimisation of the tree)
Optimizes == {None, Some(0)}

\* ast.parse(source, mode=mode): <<tree>>, or None for a SyntaxError
ast_parse(source, mode) ==
    CASE source = "2 + 2" /\ mode = "exec" -> Some(Module(<<Expr(BinOp_2_plus_2)>>))
      [] source = "2 + 2" /\ mode = "eval" -> Some(Expression(BinOp_2_plus_2))
      [] source = "2 + 2" /\ mode = "single" -> Some(Interactive(<<Expr(BinOp_2_plus_2)>>))
      [] source = "global x" /\ mode = "exec" -> Some(Module(<<Global_x>>))
      [] source = "global x" /\ mode = "eval" -> None
      [] source = "global x" /\ mode = "single" -> Some(Interactive(<<Global_x>>))
      [] source = "f()" /\ mode = "exec" -> Some(Module(<<Expr(Call_f)>>))
      [] source = "f()" /\ mode = "eval" -> Some(Expression(Call_f))
      [] source = "f()" /\ mode = "single" -> Some(Interactive(<<Expr(Call_f)>>))

\* Both branches parse the same tree: optimize is None or 0 here.
source_to_ast(source, optimize, mode) == ast_parse(source, mode)

----------------------------------------------------------------------------
(* The inputs of the calls. *)

LeafValues == {PyNone, PyStr("x")}

RECURSIVE Sized(_)
RECURSIVE Lists(_)

\* A field's value that holds n traversal targets: a leaf holds none.
FieldVal(n) == IF n = 0 THEN LeafValues ELSE Sized(n)

\* A list element that holds n traversal targets: a leaf element is one.
Elem(n) == Sized(n) \cup (IF n = 1 THEN LeafValues ELSE {})

\* The element lists that hold n traversal targets in all.
Lists(n) ==
    IF n = 0 THEN {<<>>}
    ELSE UNION {{<<x>> \o r : x \in Elem(k), r \in Lists(n - k)} : k \in 1..n}

\* The composite values that hold n traversal targets, themselves included:
\* ast.Add() (no fields), ast.keyword(arg, value), and lists.
Sized(n) ==
    (IF n = 1 THEN {PyAST("Add", <<>>)} ELSE {})
    \cup UNION {{PyAST("keyword", <<Field("arg", a), Field("value", v)>>) :
                    a \in FieldVal(k), v \in FieldVal(n - 1 - k)} : k \in 0..(n - 1)}
    \cup {PyList(es) : es \in Lists(n - 1)}

RECURSIVE NestedLists(_)
RECURSIVE NestedSeqs(_)

\* The sequences of nested lists that hold n lists in all.
NestedSeqs(n) ==
    IF n = 0 THEN {<<>>}
    ELSE UNION {{<<x>> \o r : x \in NestedLists(k), r \in NestedSeqs(n - k)} : k \in 1..n}

\* The lists of lists (of lists ...) that hold n lists, themselves included.
NestedLists(n) == {PyList(es) : es \in NestedSeqs(n - 1)}

RECURSIVE Strings(_)
\* The strings of length n over a letter, both quotes and the backslash.
Strings(n) ==
    IF n = 0 THEN {""}
    ELSE {c \o s : c \in {"a", "'", "\"", "\\"}, s \in Strings(n - 1)}

\* Leaves that are false in Python without being None or a list.
FalsyLeaves == {PyInt(0), PyBool(FALSE), PyStr("")}

\* ast.keyword(arg, value) with every pair of leaves in its two fields.
LeafFields ==
    {PyAST("keyword", <<Field("arg", a), Field("value", v)>>) :
        a \in LeafValues \cup FalsyLeaves, v \in LeafValues \cup FalsyLeaves}

\* ast.ImportFrom(module, names, level): a list field between two leaf
\* fields, the list empty or holding one ast.alias(name, asname).
ImportFroms ==
    {PyAST("ImportFrom", <<Field("module", m), Field("names", PyList(ns)),
                           Field("level", PyInt(0))>>) :
        m \in {PyNone, PyStr("a")},
        ns \in {<<>>, <<PyAST("alias", <<Field("name", PyStr("b")),
                                         Field("asname", PyNone)>>)>>}}

\* The roots passed to ast_to_dot.
Roots ==
    LeafValues
    \cup LeafFields
    \cup ImportFroms
    \cup UNION {Sized(n) : n \in 1..MaxNodes}
    \cup UNION {NestedLists(n) : n \in 1..MaxListNodes}
    \cup UNION {{Constant(PyStr(s)) : s \in Strings(n)} : n \in 0..MaxStrLen}

\* The style blocks passed to the serializer: none, or the empty block.
StyleArgs == {None, Some("")}

\* The options passed to make_style: the defaults, with the font name, the
\* size options and one other option at a time varied.
FontArgs == {None, Some("Menlo"), Some("Monaco"), Some("Helvetica"),
             Some("JetBrains Mono"), Some("Arial"), Some(""), Some("menlo")}
SizeArgs == {None, Some(0), Some(7)}

StyleOpts ==
    {[StyleDefaults EXCEPT !.fontname = f, !.width_in = w, !.height_in = h, !.force_fit = ff] :
        f \in FontArgs, w \in SizeArgs, h \in SizeArgs, ff \in BOOLEAN}
    \cup {[StyleDefaults EXCEPT !.rankdir = x] : x \in {"TB", "LR", "BT"}}
    \cup {[StyleDefaults EXCEPT !.splines = x] : x \in {"true", "line", "polyline", "ortho", "curved"}}
    \cup {[StyleDefaults EXCEPT !.fontsize = x] : x \in {15, 0, -3}}
    \cup {[StyleDefaults EXCEPT !.edge_fontsize = x] : x \in {12, 0, -3}}
    \cup {[StyleDefaults EXCEPT !.penwidth = x] : x \in {100, 0, -150}}
    \cup {[StyleDefaults EXCEPT !.edge_penwidth = x] : x \in {100, 0, -150}}
    \cup {[StyleDefaults EXCEPT !.edge_arrowsize = x] : x \in {50, 0, -50}}
    \cup {[StyleDefaults EXCEPT !.ranksep = x] : x \in {40, 0, -40}}
    \cup {[StyleDefaults EXCEPT !.nodesep = x] : x \in {25, 0, -25}}

----------------------------------------------------------------------------
(* The state machine: one call at a time, each on fresh dicts. *)

NoArgs ==
    [node |-> PyNone, source |-> "", skip |-> "", style |-> None,
     optimize |-> None, mode |-> "", opts |-> StyleDefaults]

Init ==
    /\ call = "none"
    /\ args = NoArgs
    /\ graph = EmptyDict
    /\ node_labels = EmptyDict
    /\ edge_labels = EmptyDict
    /\ result = Returned("")
    /\ first = None

\* History of the first call: what it was given and how it ended.
Remember ==
    first' = IF first = None
             THEN Some([call |-> call', args |-> args', result |-> result',
                        graph |-> graph', node_labels |-> node_labels',
                        edge_labels |-> edge_labels', again |-> FALSE])
             ELSE Some([first[1] EXCEPT !.again = TRUE])

\* _to_dot_from_ast(root, skip, style): the dicts it leaves and what it returns
Serialize(root, p, style) ==
    LET st == Walked(root, p)
    IN  /\ graph' = st.graph
        /\ node_labels' = st.node_labels
        /\ edge_labels' = st.edge_labels
        /\ result' = graph_to_dot(st.graph, st.node_labels, st.edge_labels,
                                  StyleOrDefault(style))

ast_to_dot(node, p, style) ==
    /\ call' = "ast_to_dot"
    /\ args' = [NoArgs EXCEPT !.node = node, !.skip = p, !.style = style]
    /\ Serialize(node, p, style)
    /\ Remember

source_to_dot(source, p, style, optimize, mode) ==
    /\ call' = "source_to_dot"
    /\ LET tree == source_to_ast(source, optimize, mode)
       IN  IF tree = None
           THEN /\ args' = [NoArgs EXCEPT !.source = source, !.skip = p, !.style = style,
                                          !.optimize = optimize, !.mode = mode]
                /\ result' = Raised("SyntaxError")
                /\ UNCHANGED <<graph, node_labels, edge_labels>>
           ELSE /\ args' = [NoArgs EXCEPT !.node = tree[1], !.source = source, !.skip = p,
                                          !.style = style, !.optimize = optimize, !.mode = mode]
                /\ Serialize(tree[1], p, style)
    /\ Remember

MakeStyle(o) ==
    /\ call' = "make_style"
    /\ args' = [NoArgs EXCEPT !.opts = o]
    /\ result' = Returned(make_style(o))
    /\ UNCHANGED <<graph, node_labels, edge_labels>>
    /\ Remember

\* The call is over: its dicts and its result are dropped.
Return ==
    /\ call # "none"
    /\ call' = "none"
    /\ args' = NoArgs
    /\ graph' = EmptyDict
    /\ node_labels' = EmptyDict
    /\ edge_labels' = EmptyDict
    /\ result' = Returned("")
    /\ first' = None

\* A call starts when no call is running (the module is single-threaded).
Idle == call = "none"

Next ==
    \/ Idle /\ \E node \in Roots, p \in SkipArgs, style \in StyleArgs :
                  ast_to_dot(node, p, style)
    \/ Idle /\ \E source \in Sources, p \in SkipArgs, style \in StyleArgs,
                  optimize \in Optimizes, mode \in Modes :
                    source_to_dot(source, p, style, optimize, mode)
    \/ Idle /\ \E o \in StyleOpts : MakeStyle(o)
    \/ Return

Spec == Init /\ [][Next]_vars

----------------------------------------------------------------------------
(* Sequences of serializer calls.  Here the dicts of a finished call stay   *)
(* where the call left them: nothing in the module refers to them any more, *)
(* and a later call shall not see them either.                              *)

\* Largest number of lists in an input tree of the call sequences.
MaxSeqLists == 3

SeqRoots == Sized(1) \cup UNION {NestedLists(n) : n \in 1..MaxSeqLists}

SeqSkips == {"skip", "never"}

\* return graph_to_dot(...): the call is over, the next one may start
ReturnKeeping ==
    /\ call # "none"
    /\ call' = "none"
    /\ args' = NoArgs
    /\ result' = Returned("")
    /\ UNCHANGED <<graph, node_labels, edge_labels, first>>

NextSeq ==
    \/ Idle /\ \E node \in SeqRoots, p \in SeqSkips, style \in StyleArgs :
                  ast_to_dot(node, p, style)
    \/ Idle /\ \E source \in Sources, mode \in Modes :
                  source_to_dot(source, "skip", Some(""), None, mode)
    \/ ReturnKeeping

SpecSeq == Init /\ [][NextSeq]_vars

----------------------------------------------------------------------------
(* What the claims below refer to. *)

\* A serializer call that got as far as the traversal.
Traversed == call \in {"ast_to_dot", "source_to_dot"} /\ graph.keys # <<>>

\* The root that was traversed.
Root == args.node

Ids == KeySet(graph)

\* The adjacency list of a node ID.
Children(id) == DictGet(graph, id)

\* The places <<parent, index>> of the adjacency lists that hold id.
ChildPlaces(id) ==
    {pl \in UNION {{<<q, j>> : j \in 1..Len(Children(q))} : q \in Ids} :
        Children(pl[1])[pl[2]] = id}

\* The parents edge_labels records for id.
Parents(id) == {k[1] : k \in {e \in KeySet(edge_labels) : e[2] = id}}

RECURSIVE PathOf(_)
\* The edge labels from the root down to id (each node has one smaller parent).
PathOf(id) ==
    IF id = 0 THEN <<>>
    ELSE LET q == CHOOSE x \in Parents(id) : TRUE
         IN  Append(PathOf(q), DictGet(edge_labels, <<q, id>>))

RECURSIVE ValueAt(_, _)
\* The value of the input tree that the edge labels of path lead to from v.
ValueAt(v, path) ==
    IF path = <<>> THEN v
    ELSE IF v.kind = "AST"
    THEN ValueAt(v.fields[CHOOSE i \in 1..Len(v.fields) : "." \o v.fields[i][1] = Head(path)][2],
                 Tail(path))
    ELSE ValueAt(v.elems[CHOOSE i \in 1..Len(v.elems) : "[" \o ToString(i - 1) \o "]" = Head(path)],
                 Tail(path))

\* The input value node ID id stands for.
ValueOf(id) == ValueAt(Root, PathOf(id))

RECURSIVE PreOrder(_, _, _)
\* The paths of the traversal targets of v in depth-first pre-order: v itself,
\* then what lies under its fields in declaration order (leaf and skipped
\* fields are no targets), or under its elements in index order.
PreOrder(v, path, p) ==
    LET RECURSIVE Fields(_)
        Fields(i) ==
            IF i > Len(v.fields) THEN <<>>
            ELSE (IF ~CallSkip(p, v.fields[i][1], v.fields[i][2]) /\ IsComposite(v.fields[i][2])
                  THEN PreOrder(v.fields[i][2], Append(path, "." \o v.fields[i][1]), p)
                  ELSE <<>>) \o Fields(i + 1)
        RECURSIVE Elems(_)
        Elems(i) ==
            IF i > Len(v.elems) THEN <<>>
            ELSE PreOrder(v.elems[i], Append(path, "[" \o ToString(i - 1) \o "]"), p)
                 \o Elems(i + 1)
    IN  <<path>> \o (CASE v.kind = "AST" -> Fields(1)
                       [] v.kind = "list" -> Elems(1)
                       [] OTHER -> <<>>)

\* Every ID but 0 has exactly one recorded parent, and that parent is smaller.
WellParented ==
    \A id \in Ids \ {0} :
        /\ Cardinality(Parents(id)) = 1
        /\ \A q \in Parents(id) : q \in Ids /\ q < id

----------------------------------------------------------------------------
(* C1 *)

\* C1 (tree invariant): after the traversal every node ID other than 0 is held
\* at exactly one place of the adjacency lists, ID 0 at none, and the lists
\* hold nothing but node IDs.
C1_TreeInvariant ==
    Traversed =>
        /\ 0 \in Ids
        /\ \A id \in Ids : Cardinality(ChildPlaces(id)) = (IF id = 0 THEN 0 ELSE 1)
        /\ \A q \in Ids : \A j \in 1..Len(Children(q)) : Children(q)[j] \in Ids

\* C1 witness: a list that holds the same composite value twice was
\* traversed, and the two occurrences got two node IDs.
C1_Witness ==
    /\ Traversed
    /\ Root.kind = "list" /\ Len(Root.elems) = 2
    /\ Root.elems[1] = Root.elems[2] /\ IsComposite(Root.elems[1])
    /\ Len(Children(0)) = 2 /\ Children(0)[1] # Children(0)[2]

----------------------------------------------------------------------------
(* C2 *)

\* C2 (ID monotonicity): the IDs are 0, 1, 2, ... in the order they were
\* allocated, every child ID is greater than its parent's, and the node with
\* ID k is the k-th traversal target of the root in depth-first pre-order,
\* skipped fields not counted.
C2_IdMonotonicity ==
    Traversed =>
        /\ graph.keys = [i \in 1..Len(graph.keys) |-> i - 1]
        /\ \A q \in Ids : \A j \in 1..Len(Children(q)) : Children(q)[j] > q
        /\ WellParented
        /\ LET order == PreOrder(Root, <<>>, args.skip)
           IN  /\ Len(order) = Len(graph.keys)
               /\ \A id \in Ids : PathOf(id) = order[id + 1]

\* C2 witness: a node with a skipped composite field followed by a composite
\* field that is not skipped was traversed, and the second field's value got
\* ID 1.
C2_Witness ==
    /\ Traversed
    /\ Root.kind = "AST" /\ Len(Root.fields) = 2
    /\ CallSkip(args.skip, Root.fields[1][1], Root.fields[1][2])
    /\ IsComposite(Root.fields[1][2])
    /\ ~CallSkip(args.skip, Root.fields[2][1], Root.fields[2][2])
    /\ IsComposite(Root.fields[2][2])
    /\ Children(0) = <<1>>
    /\ DictGet(edge_labels, <<0, 1>>) = "." \o Root.fields[2][1]

----------------------------------------------------------------------------
(* C3 *)

\* The entries of a node label after the type name.
LabelEntries(label) == Tail(Split(label, "\\n"))

\* C3 (skip correctness): for every field of a visited composite node that the
\* skip predicate passed in accepts, the node has no outgoing edge labelled
\* with the field and its label has no entry for the field; and the graph has
\* exactly as many nodes as the tree has traversal targets outside skipped
\* fields.
C3_SkipCorrectness ==
    (Traversed /\ WellParented) =>
        /\ Len(graph.keys) = Len(PreOrder(Root, <<>>, args.skip))
        /\ \A id \in Ids :
             LET v == ValueOf(id)
             IN  v.kind = "AST" =>
                   \A i \in 1..Len(v.fields) :
                       CallSkip(args.skip, v.fields[i][1], v.fields[i][2]) =>
                         /\ \A j \in 1..Len(Children(id)) :
                                DictGet(edge_labels, <<id, Children(id)[j]>>) # "." \o v.fields[i][1]
                         /\ LET entries == LabelEntries(DictGet(node_labels, id))
                            IN  \A k \in 1..Len(entries) :
                                    ~StartsWith(entries[k], v.fields[i][1] \o ": ")

\* C3 witness: under a predicate of the caller's, a node was traversed that has
\* a skipped field holding a list that is not empty, and the node got no child.
C3_Witness ==
    /\ Traversed
    /\ args.skip = "name_value"
    /\ Root.kind = "AST"
    /\ \E i \in 1..Len(Root.fields) :
          /\ CallSkip(args.skip, Root.fields[i][1], Root.fields[i][2])
          /\ Root.fields[i][2].kind = "list" /\ Root.fields[i][2].elems # <<>>
    /\ Children(0) = <<>>
    /\ result.raised = ""

----------------------------------------------------------------------------
(* C4 *)

\* A call that handed a tree to the serializer (the parser did not fail).
Serialized ==
    \/ call = "ast_to_dot"
    \/ call = "source_to_dot" /\ result.raised # "SyntaxError"

\* C4 (the serializer raises nothing): every serializer call on a composite
\* node, a list or a leaf value returns a string.
C4_RaisesNothing == Serialized => result.raised = ""

----------------------------------------------------------------------------
(* C5 *)

\* C5 (a leaf reached as a traversal target creates no node): a leaf root
\* leaves the graph empty, every node ID stands for a composite node or a
\* list, and no edge label is recorded for a leaf.
C5_LeafCreatesNoNode ==
    /\ (call = "ast_to_dot" /\ ~IsComposite(Root)) => graph.keys = <<>>
    /\ (Traversed /\ IsComposite(Root)) =>
          /\ \A id \in Ids : IsComposite(ValueOf(id))
          /\ \A e \in KeySet(edge_labels) : IsComposite(ValueOf(e[2]))

----------------------------------------------------------------------------
(* C6 *)

\* The text src/test.py expects of source_to_dot('2 + 2', style='') (a raw
\* string: its \n inside the labels are a backslash and an n).
test_output ==
    "\n"
    \o "digraph G {\n"
    \o "0 [label=\"Module\" shape=box style=\"rounded, filled\"]\n"
    \o "1 [label=\"list\" shape=box style=\"rounded, filled\"]\n"
    \o "2 [label=\"Expr\" shape=box style=\"rounded, filled\"]\n"
    \o "3 [label=\"BinOp\" shape=box style=\"rounded, filled\"]\n"
    \o "4 [label=\"Constant\\nvalue: 2\" shape=box style=\"rounded, filled\"]\n"
    \o "5 [label=\"Add\" shape=box style=\"rounded, filled\"]\n"
    \o "6 [label=\"Constant\\nvalue: 2\" shape=box style=\"rounded, filled\"]\n"
    \o "0 -> 1 [label=\".body\"]\n"
    \o "1 -> 2 [label=\"[0]\"]\n"
    \o "2 -> 3 [label=\".value\"]\n"
    \o "3 -> 4 [label=\".left\"]\n"
    \o "3 -> 5 [label=\".op\"]\n"
    \o "3 -> 6 [label=\".right\"]\n"
    \o "}\n"
    \o "    "

\* source_to_dot('2 + 2', style=''), every other argument at its default
TwoPlusTwoCall ==
    /\ call = "source_to_dot"
    /\ args.source = "2 + 2" /\ args.skip = "skip" /\ args.style = Some("")
    /\ args.optimize = None /\ args.mode = "exec"

\* C6 (the repository's test): source_to_dot('2 + 2', style='') returns the
\* text the test asserts, whose node lines carry shape=box style="rounded,
\* filled" after the label.
C6_TestOutput ==
    TwoPlusTwoCall =>
        /\ result.raised = ""
        /\ Strip(result.text) = Strip(test_output)

----------------------------------------------------------------------------
(* C7 *)

\* The <<parent, child, label>> triples of edge_labels.
EdgeTriples == {<<e[1], e[2], DictGet(edge_labels, e)>> : e \in KeySet(edge_labels)}

\* C7 (the tree of 2 + 2): 7 nodes, Module, list, Expr, BinOp, Constant, Add,
\* Constant, both constants labelled Constant\nvalue: 2, and the 6 edges
\* .body, [0], .value, .left, .op, .right.
C7_TwoPlusTwo ==
    TwoPlusTwoCall =>
        /\ graph.keys = <<0, 1, 2, 3, 4, 5, 6>>
        /\ KeySet(node_labels) = 0..6
        /\ [id \in 0..6 |-> DictGet(node_labels, id)] =
             [id \in 0..6 |->
                 CASE id = 0 -> "Module" [] id = 1 -> "list" [] id = 2 -> "Expr"
                   [] id = 3 -> "BinOp" [] id = 4 -> "Constant\\nvalue: 2"
                   [] id = 5 -> "Add" [] id = 6 -> "Constant\\nvalue: 2"]
        /\ graph.val = <<<<1>>, <<2>>, <<3>>, <<4, 5, 6>>, <<>>, <<>>, <<>>>>
        /\ EdgeTriples = {<<0, 1, ".body">>, <<1, 2, "[0]">>, <<2, 3, ".value">>,
                          <<3, 4, ".left">>, <<3, 5, ".op">>, <<3, 6, ".right">>}
        /\ result.raised = ""
        /\ Len(Split(result.text, "\n")) = 1 + 7 + 6 + 1

\* C7 witness: source_to_dot('2 + 2', style='') returned.
C7_Witness == TwoPlusTwoCall /\ result.raised = "" /\ Len(graph.keys) = 7

----------------------------------------------------------------------------
(* C8 *)

\* The output for the dicts of the state, with the edge lines in the order of
\* pairs.
OutputWith(pairs) ==
    Join(<<"digraph G {" \o StyleOrDefault(args.style)>>
         \o [i \in 1..Len(graph.keys) |-> NodeLine(i - 1, DictGet(node_labels, i - 1))]
         \o [i \in 1..Len(pairs) |->
                EdgeLine(pairs[i][1], pairs[i][2], DictGet(edge_labels, pairs[i]))]
         \o <<"}">>,
         "\n")

\* C8 as the specification states it: the header with the style block, the
\* node lines by increasing ID, the edge lines in the order the traversal
\* reached their child ends (that is by child ID), then the closing line.
C8_EdgesInVisitOrder ==
    (Traversed /\ result.raised = "") =>
        result.text = OutputWith(SortedPairs(KeySet(edge_labels), "child"))

\* C8 amended: the header with the style block, the node lines by increasing
\* ID, the edge lines grouped by parent in increasing parent ID and within
\* one parent by increasing child ID, then the closing line.
C8_EdgesByParent ==
    (Traversed /\ result.raised = "") =>
        result.text = OutputWith(SortedPairs(KeySet(edge_labels), "parent"))

\* C8 witness: output was returned for a root whose first child has a child
\* of its own and which has a second child.
C8_Witness ==
    /\ Traversed /\ result.raised = ""
    /\ graph.keys = <<0, 1, 2, 3>>
    /\ Children(0) = <<1, 3>> /\ Children(1) = <<2>>

----------------------------------------------------------------------------
(* C9 *)

\* The positions of s that hold a double quote with no backslash before it.
UnescapedQuotes(s) ==
    {i \in 1..Len(s) : CharAt(s, i) = "\"" /\ (i = 1 \/ CharAt(s, i - 1) # "\\")}

Quotes(s) == {i \in 1..Len(s) : CharAt(s, i) = "\""}

\* The lines of the output after the header line and the style block.
OutputBody ==
    LET header == "digraph G {" \o StyleOrDefault(args.style) \o "\n"
    IN  IF StartsWith(result.text, header)
        THEN Split(SubSeq(result.text, Len(header) + 1, Len(result.text)), "\n")
        ELSE <<>>

----------------------------------------------------------------------------
(* C10 *)

\* The text of s from the first occurrence of from up to the first
\* occurrence of to after it (to the end when to is "").
Section(s, from, to) ==
    LET a == CHOOSE i \in Occurrences(s, from) : \A j \in Occurrences(s, from) : i <= j
        ends == {i \in Occurrences(s, to) : i > a}
        b == IF to = "" THEN Len(s) + 1 ELSE CHOOSE i \in ends : \A j \in ends : i <= j
    IN  SubSeq(s, a, b - 1)

\* C10 (style fallback): make_style with a font name outside the allow-list
\* returns what make_style returns with no font name and the same other
\* options, and that text names the font Menlo in its graph, node and edge
\* sections.
C10_StyleFallback ==
    (call = "make_style" /\ ~InAllowedFonts(args.opts.fontname)) =>
        /\ result = Returned(make_style([args.opts EXCEPT !.fontname = None]))
        /\ \A sec \in {Section(result.text, "graph [", "node ["),
                        Section(result.text, "node [", "edge ["),
                        Section(result.text, "edge [", "")} :
               /\ Cardinality(Occurrences(sec, "fontname=\"Menlo\"")) = 1
               /\ Cardinality(Occurrences(sec, "fontname=")) = 1

\* C10 witness: make_style was called with the font name Arial.
C10_Witness ==
    /\ call = "make_style"
    /\ args.opts.fontname = Some("Arial")
    /\ result.raised = ""

----------------------------------------------------------------------------
(* C11 *)

\* The size directive the claim describes for width w and height h, each
\* None when it counts as not supplied: the text after size=, quotes included,
\* or "" for no directive.
SizeDirective(w, h, force_fit) ==
    LET bang == IF force_fit THEN "!" ELSE ""
    IN  IF w # None /\ h # None
        THEN "\"" \o ToString(w[1]) \o "," \o ToString(h[1]) \o bang \o "\""
        ELSE IF w # None THEN "\"" \o ToString(w[1]) \o bang \o "\""
        ELSE IF h # None THEN "\"100," \o ToString(h[1]) \o bang \o "\""
        ELSE ""

\* Whether the block text carries exactly the size directive d (none for "").
\* A size directive is size= followed by a quote; fontsize= is followed by a
\* digit.
CarriesSize(text, d) ==
    LET at == Occurrences(text, " size=\"")
    IN  IF d = "" THEN at = {}
        ELSE /\ Cardinality(at) = 1
             /\ \A i \in at : OccursAt(text, " size=" \o d \o "\n", i)

\* An optional int that is 0 counts as not supplied.
NoneIfZero(x) == IF x # None /\ x[1] = 0 THEN None ELSE x

\* C11 as the specification states it: the block of make_style carries
\* size="{w},{h}" when width and height are both supplied (not None),
\* size="{w}" for the width alone, size="100,{h}" for the height alone and no
\* size directive for neither; ! ends the quoted text exactly when force_fit
\* is true, and without a directive force_fit changes nothing.
C11_SizeWhenSupplied ==
    call = "make_style" =>
        LET o == args.opts
        IN  /\ result.raised = ""
            /\ CarriesSize(result.text, SizeDirective(o.width_in, o.height_in, o.force_fit))
            /\ (o.width_in = None /\ o.height_in = None) =>
                   result.text = make_style([o EXCEPT !.force_fit = ~o.force_fit])

\* C11 amended: the same, with a width or height of 0 counted as not
\* supplied, like None.
C11_SizeWhenNonZero ==
    call = "make_style" =>
        LET o == args.opts
            w == NoneIfZero(o.width_in)
            h == NoneIfZero(o.height_in)
        IN  /\ result.raised = ""
            /\ CarriesSize(result.text, SizeDirective(w, h, o.force_fit))
            /\ (w = None /\ h = None) =>
                   result.text = make_style([o EXCEPT !.force_fit = ~o.force_fit])

\* C11 witness: make_style was called with a height alone and force_fit, and
\* the block carries size="100,7!".
C11_Witness ==
    /\ call = "make_style"
    /\ args.opts.width_in = None /\ args.opts.height_in = Some(7) /\ args.opts.force_fit
    /\ Occurrences(result.text, " size=\"100,7!\"\n") # {}

----------------------------------------------------------------------------
(* C12 *)

\* The options with every value outside its allowed domain replaced by the
\* default of its option: a rank direction other than TB and LR, a splines
\* value outside true, line, polyline, ortho, a negative pen width, arrow size
\* or separation, a font size that is not positive.
Normalized(o) ==
    LET d == StyleDefaults
    IN  [o EXCEPT
           !.rankdir = IF @ \in {"TB", "LR"} THEN @ ELSE d.rankdir,
           !.splines = IF @ \in {"true", "line", "polyline", "ortho"} THEN @ ELSE d.splines,
           !.penwidth = IF @ >= 0 THEN @ ELSE d.penwidth,
           !.edge_penwidth = IF @ >= 0 THEN @ ELSE d.edge_penwidth,
           !.edge_arrowsize = IF @ >= 0 THEN @ ELSE d.edge_arrowsize,
           !.ranksep = IF @ >= 0 THEN @ ELSE d.ranksep,
           !.nodesep = IF @ >= 0 THEN @ ELSE d.nodesep,
           !.fontsize = IF @ > 0 THEN @ ELSE d.fontsize,
           !.edge_fontsize = IF @ > 0 THEN @ ELSE d.edge_fontsize]

\* C12 (invalid options are normalized): make_style never raises, and with an
\* option value outside its allowed domain it returns the block it returns
\* with that option at its default.
C12_InvalidOptionsNormalized ==
    call = "make_style" =>
        /\ result.raised = ""
        /\ result.text = make_style(Normalized(args.opts))

----------------------------------------------------------------------------
(* C13 *)

\* The call running now is a later call with the arguments of the first call.
FirstCallAgain ==
    /\ call \in {"ast_to_dot", "source_to_dot"}
    /\ first # None
    /\ first[1].again
    /\ call = first[1].call
    /\ args = first[1].args

----------------------------------------------------------------------------
(* C14 *)

\* The call was made with the default skip predicate.
DefaultSkip == Traversed /\ args.skip = "skip"

\* The IDs of the nodes and lists of the input: the IDs that got a label.
NodeIds == {id \in Ids : HasKey(node_labels, id)}

\* The entries of the label of id: the class name, then the leaf fields.
EntriesOf(id) ==
    LET es == Split(DictGet(node_labels, id), "\\n")
    IN  {es[i] : i \in 1..Len(es)}

\* The labels of the edges that leave id.
EdgesOut(id) ==
    {DictGet(edge_labels, k) : k \in {e \in KeySet(edge_labels) : e[1] = id}}

\* What the default predicate let through of field f of node id: an edge
\* for a composite value, a label entry for a leaf.
Rendered(id, f) ==
    IF IsComposite(f[2]) THEN "." \o f[1] \in EdgesOut(id)
    ELSE f[1] \o ": " \o Repr(f[2]) \in EntriesOf(id)

\* No trace of field f at node id: no edge and no label entry of that name.
Omitted(id, f) ==
    /\ "." \o f[1] \notin EdgesOut(id)
    /\ \A e \in EntriesOf(id) : ~StartsWith(e, f[1] \o ": ")

\* C14 (default skip predicate): skip(name, value) is true exactly when name
\* is not `value` and value is the empty list or None.  Hence, in every call
\* with the default predicate and for every field of every composite node: a
\* field other than `value` holding [] or None leaves no edge and no label
\* entry; a field named `value` holding None is the label entry `value: None`;
\* and every other value (0, False and '' included) is rendered, as an edge
\* when it is a node or a list and as the label entry `name: repr(value)`
\* when it is a leaf.
C14_DefaultSkip ==
    DefaultSkip =>
        \A id \in NodeIds :
            LET node == ValueOf(id)
            IN  node.kind = "AST" =>
                  \A i \in 1..Len(node.fields) :
                      LET f == node.fields[i]
                          empty == f[2] = PyList(<<>>) \/ f[2] = PyNone
                      IN  /\ skip(f[1], f[2]) <=> (f[1] # "value" /\ empty)
                          /\ IF f[1] # "value" /\ empty
                             THEN Omitted(id, f)
                             ELSE Rendered(id, f)
                          /\ (f[1] = "value" /\ f[2] = PyNone)
                                => "value: None" \in EntriesOf(id)

\* keyword(arg=0, value=None) under the default predicate: both fields are
\* label entries.
C14_Witness ==
    /\ DefaultSkip
    /\ Root = PyAST("keyword", <<Field("arg", PyInt(0)), Field("value", PyNone)>>)
    /\ DictGet(node_labels, 0) = "keyword\\narg: 0\\nvalue: None"
    /\ ~skip("arg", PyInt(0))
    /\ ~skip("value", PyNone)
----------------------------------------------------------------------------
(* C15 *)

RECURSIVE LeafEntries(_, _, _)
\* The `name: repr(value)` entries of the fields of node from field i on that
\* predicate p does not skip and that hold a leaf, in declaration order.
LeafEntries(node, p, i) ==
    IF i > Len(node.fields) THEN <<>>
    ELSE LET f == node.fields[i]
         IN  (IF ~CallSkip(p, f[1], f[2]) /\ ~IsComposite(f[2])
              THEN <<f[1] \o ": " \o Repr(f[2])>>
              ELSE <<>>) \o LeafEntries(node, p, i + 1)

\* The label of every labelled ID is the one its value calls for.
LabelFormat ==
    \A id \in Ids :
        HasKey(node_labels, id) =>
            LET v == ValueOf(id)
                label == DictGet(node_labels, id)
            IN  /\ v.kind = "AST" =>
                      label = Join(<<v.cls>> \o LeafEntries(v, args.skip, 1), "\\n")
                /\ v.kind = "list" => label = "list"
                /\ IsComposite(v)

\* Every ID of the graph has a label.
LabelsComplete == \A id \in Ids : HasKey(node_labels, id)

\* C15 (node labels): after the traversal the label of a composite node is
\* its type name followed by the entry `name: repr(value)` of each non-skipped
\* leaf field in declaration order, joined by backslash-n; the label of a
\* list is `list`, of the empty list too; and every ID of the graph has a
\* label.
C15_NodeLabels == Traversed => (LabelFormat /\ LabelsComplete)

\* The part of C15 about the text of the labels alone.
LabelFormatHolds == Traversed => LabelFormat
----------------------------------------------------------------------------
(* C16 *)

\* The <<parent ID, child ID>> pairs of the adjacency lists.
AdjacencyPairs ==
    UNION {{<<q, Children(q)[j]>> : j \in 1..Len(Children(q))} : q \in Ids}

\* label says how value child is reached from value parent: as the value of
\* field `name` (label .name) or as the element at index i (label [i]).
ReachedBy(parent, child, label) ==
    CASE parent.kind = "AST" ->
             \E i \in 1..Len(parent.fields) :
                 /\ label = "." \o parent.fields[i][1]
                 /\ child = parent.fields[i][2]
      [] parent.kind = "list" ->
             \E i \in 1..Len(parent.elems) :
                 /\ label = "[" \o ToString(i - 1) \o "]"
                 /\ child = parent.elems[i]
      [] OTHER -> FALSE

\* C16 (edge labels): after the traversal the keys of edge_labels are exactly
\* the <<parent ID, child ID>> pairs of the adjacency lists; with the IDs
\* standing for the traversal targets in pre-order, the label of <<q, c>> is
\* the step from the place of q to the place of c in the input, `.name` for
\* the value of field name of a composite node and `[i]` for the element at
\* index i of a list, all elements counted from 0; and no edge label has the
\* root as its child.
C16_EdgeLabels ==
    Traversed =>
        /\ KeySet(edge_labels) = AdjacencyPairs
        /\ \A e \in KeySet(edge_labels) : e[2] # 0
        /\ LET order == PreOrder(Root, <<>>, args.skip)
           IN  /\ Len(order) = Len(graph.keys)
               /\ \A e \in KeySet(edge_labels) :
                     LET label == DictGet(edge_labels, e)
                     IN  /\ order[e[2] + 1] = Append(order[e[1] + 1], label)
                         /\ ReachedBy(ValueAt(Root, order[e[1] + 1]),
                                      ValueAt(Root, order[e[2] + 1]), label)

\* A list of a leaf and a list was traversed: the second element, the only
\* composite one, has the edge label [1].
C16_Witness ==
    /\ Traversed
    /\ Root = PyList(<<PyStr("x"), PyList(<<>>)>>)
    /\ KeySet(edge_labels) = {<<0, 1>>, <<0, 2>>}
    /\ DictGet(edge_labels, <<0, 1>>) = "[0]"
    /\ DictGet(edge_labels, <<0, 2>>) = "[1]"
====
